---- MODULE Spec2Model ----
(***************************************************************************)
(* A model of concopy.dump.Dumper (src/concopy/dump.py): one Dumper with   *)
(* its cached psycopg2 connection, the PostgreSQL database it reads, other *)
(* connections committing writes, and the zip archive a dump call writes.  *)
(* The database holds the fixture of src/tests/test_backend.py: groups,    *)
(* employees (manager_id, referrer_id -> employees.id, group_id ->         *)
(* groups.id) and tickets (author_id -> employees.id).                     *)
(***************************************************************************)
EXTENDS Integers, Sequences, FiniteSets, TLC

VARIABLES
    db,              \* the live database: table name -> set of committed rows
    nwrites,         \* commits made so far by the other connections
    txn,             \* the cached connection's transaction: "none", "open", "aborted"
    snapshot,        \* the database as the open transaction sees it
    pc,              \* position of the dump call: "idle", "schema", "sequences",
                     \* "full", "partial", "close", "done", "failed"
    full_tables,     \* dump's argument: a sequence of table names
    partial_tables,  \* dump's argument: the mapping, as a sequence of <<table, sql>>
    i,               \* index of the table the running for-loop is at
    archive,         \* the entries of the zip file at archive_path, in order
    archive_exists,  \* whether a file is at archive_path
    related,         \* the last dict returned by get_related_objects_queries
    related_tables,  \* the last rows of RECURSIVE_RELATIONS_QUERY (write_partial_tables)
    dumps,           \* dump calls started so far
    concurrent,      \* the writes committed while the call ran with its transaction
                     \* open, each with the number of entries written before it
    between,         \* the writes committed after a dump call returned, pg_dump
                     \* having succeeded, and before the next began, each with
                     \* the number of calls before it
    pg_dump_failed,  \* whether pg_dump exited non-zero during this call
    error,           \* the exception the call ended with, "" for none
    password,        \* Dumper.password
    environ,         \* os.environ of the process: variable name -> value
    child_env        \* the mapping pg_dump_environment returned last

vars == <<db, nwrites, txn, snapshot, pc, full_tables, partial_tables, i, archive,
          archive_exists, related, related_tables, dumps, concurrent, between,
          pg_dump_failed, error, password, environ, child_env>>

\* The state pg_dump_environment reads and writes.
env_vars == <<password, environ, child_env>>

\* ---------------------------------------------------------------- bounds

\* Commits by other connections in one behaviour.
MaxWrites == 1
\* dump calls on the one Dumper in one behaviour.
MaxDumps == 1
\* dump calls on the one Dumper in one behaviour of SpecRepeat, which repeats a call.
MaxCalls == 2

\* ------------------------------------------------------------ the fixture

\* SQL NULL, as a column value.
NULL == 0

Tables == {"groups", "employees", "tickets"}

\* A row of any table; the columns a table does not have are NULL.
Row(t, id, manager_id, referrer_id, group_id, author_id) ==
    [table |-> t, id |-> id, manager_id |-> manager_id, referrer_id |-> referrer_id,
     group_id |-> group_id, author_id |-> author_id]

Group(id) == Row("groups", id, NULL, NULL, NULL, NULL)
Employee(id, manager_id, referrer_id, group_id) ==
    Row("employees", id, manager_id, referrer_id, group_id, NULL)
Ticket(id, author_id) == Row("tickets", id, NULL, NULL, NULL, author_id)

DOE == Employee(1, NULL, NULL, 1)
BLACK == Employee(2, 1, NULL, 1)
SMITH == Employee(3, 1, NULL, 1)
BROWN == Employee(4, 3, NULL, 2)
SNOW == Employee(5, 3, 4, 2)

\* The rows the tests load before a dump.
FixtureData ==
    [t \in Tables |->
        CASE t = "groups" -> {Group(1), Group(2)}
          [] t = "employees" -> {DOE, BLACK, SMITH, BROWN, SNOW}
          [] t = "tickets" -> {Ticket(1, 1), Ticket(2, 2), Ticket(3, 2)}]

EmptyData == [t \in Tables |-> {}]

\* The FOREIGN KEY constraints of the schema, as information_schema joins them.
ForeignKeys ==
    { [table_name |-> "employees", column_name |-> "manager_id",
       foreign_table_name |-> "employees", foreign_column_name |-> "id"],
      [table_name |-> "employees", column_name |-> "referrer_id",
       foreign_table_name |-> "employees", foreign_column_name |-> "id"],
      [table_name |-> "employees", column_name |-> "group_id",
       foreign_table_name |-> "groups", foreign_column_name |-> "id"],
      [table_name |-> "tickets", column_name |-> "author_id",
       foreign_table_name |-> "employees", foreign_column_name |-> "id"] }

\* What another connection may commit during the run: the insert of
\* test_transaction and the delete of a row no other row references.
Writes ==
    { [op |-> "insert", row |-> Group(3)],
      [op |-> "delete", row |-> Ticket(3, 2)] }

Applicable(w, data) ==
    IF w.op = "insert"
    THEN \A r \in data[w.row.table] : r.id # w.row.id
    ELSE w.row \in data[w.row.table]

Apply(w, data) ==
    [data EXCEPT ![w.row.table] =
        IF w.op = "insert" THEN @ \cup {w.row} ELSE @ \ {w.row}]

\* ------------------------------------------------------------------ SQL

\* 'SELECT * FROM {t} WHERE id = {id}' and, with limit = 1, the same with ' LIMIT 1'.
Select(t, id, limit) == [kind |-> "user", table |-> t, id |-> id, limit |-> limit]

\* The root selections a partial_tables mapping may give a table, from the tests'
\* dump markers.
UserSql(t) ==
    CASE t = "employees" -> {Select(t, 1, 1), Select(t, 2, 0)}
      [] t = "tickets" -> {Select(t, 3, 0)}
      [] t = "groups" -> {Select(t, 1, 0)}

\* f'SELECT * FROM {table_name}' of write_full_tables.
SelectAll(t) == [kind |-> "all", table |-> t]

\* RELATED_ITEMS_FULL_QUERY.format(...): the inner SELECT reads {local_table}.
RELATED_ITEMS_FULL_QUERY(foreign_table, foreign_column_name, local_table, local_column_name) ==
    [kind |-> "related", foreign_table |-> foreign_table,
     foreign_column_name |-> foreign_column_name,
     local_table |-> local_table, local_column_name |-> local_column_name]

\* LIMIT n: n rows of the result, here those with the least ids (a root selection of
\* UserSql returns at most one row, so the choice does not show).
RECURSIVE Limit(_, _)
Limit(rows, n) ==
    IF n = 0 \/ rows = {} THEN {}
    ELSE LET first == CHOOSE r \in rows : \A s \in rows : r.id <= s.id
         IN {first} \cup Limit(rows \ {first}, n - 1)

\* The result of a SELECT on the database state `data`.
Eval(sql, data) ==
    CASE sql.kind = "all" -> data[sql.table]
      [] sql.kind = "user" ->
            LET rows == {r \in data[sql.table] : r.id = sql.id}
            IN IF sql.limit = 0 THEN rows ELSE Limit(rows, sql.limit)
      [] sql.kind = "related" ->
            LET keys == {l[sql.local_column_name] : l \in
                            {l \in data[sql.local_table] : l[sql.local_column_name] # NULL}}
            IN {r \in data[sql.foreign_table] : r[sql.foreign_column_name] \in keys}

\* ------------------------------------------------------- the environment

\* password = attr.ib(default=None); None is kept apart from every string a
\* password can be.
None == "<None>"

\* The passwords a Dumper is given: none, the empty string, test_pg_dump_environment's.
Passwords == {None, "", "PASSW"}

\* The process environments: any of these variables, set to any of these values.
EnvNames == {"PATH", "HOME", "PGPASSWORD"}
EnvValues == {"/usr/bin", "PASSW"}
Environs == UNION {[names -> EnvValues] : names \in SUBSET EnvNames}

\* The environment of a process that has no PGPASSWORD, as the tests assume.
AmbientEnviron == [name \in {"PATH"} |-> "/usr/bin"]

\* Python's truth value of self.password.
Truthy(p) == p # None /\ p # ""

\* PGPASSWORD put into the returned mapping whatever the password is.
pg_dump_environment_unconditional ==
    [env |-> [name \in DOMAIN environ \cup {"PGPASSWORD"} |->
                IF name = "PGPASSWORD" THEN password ELSE environ[name]],
     os_environ |-> environ]

\* Dumper.pg_dump_environment: the mapping it returns (env) and os.environ after
\* the call. {**os.environ, 'PGPASSWORD': self.password} and os.environ.copy()
\* both build a new mapping.
pg_dump_environment ==
    IF Truthy(password)
    THEN [env |-> [name \in DOMAIN environ \cup {"PGPASSWORD"} |->
                     IF name = "PGPASSWORD" THEN password ELSE environ[name]],
          os_environ |-> environ]
    ELSE [env |-> environ, os_environ |-> environ]

\* --------------------------------------------------------- the connection

\* The connection left at the server's default level.
ISOLATION_LEVEL_READ_COMMITTED == "READ COMMITTED"

\* connection.set_isolation_level(ISOLATION_LEVEL_REPEATABLE_READ).
ISOLATION_LEVEL == "REPEATABLE READ"

\* The database state a statement of the cached connection reads. psycopg2 begins
\* the transaction with the first statement; under REPEATABLE READ every later
\* statement of the transaction reads the snapshot of the first, under a weaker
\* level each statement reads what is committed when it runs.
Visible ==
    IF ISOLATION_LEVEL = "REPEATABLE READ" /\ txn = "open" THEN snapshot ELSE db

\* Dumper.run / cursor.copy_expert succeed only outside a failed transaction.
CanExecute == txn # "aborted"

\* Dumper.export_to_csv: COPY (sql) TO STDOUT WITH CSV HEADER, the rows of the result.
export_to_csv(sql) == Eval(sql, Visible)

\* --------------------------------------------------------------- catalog

Range(s) == {s[k] : k \in DOMAIN s}

SelectableTables == <<"groups", "employees", "tickets">>
Sequences_ == <<"groups_id_seq", "employees_id_seq", "tickets_id_seq">>

\* Dumper.get_selectable_tables / Dumper.get_sequences.
get_selectable_tables == SelectableTables
get_sequences == Sequences_

\* NON_RECURSIVE_RELATIONS_QUERY with %(table_name)s bound.
NON_RECURSIVE_RELATIONS_QUERY(table_name) ==
    {e \in ForeignKeys : e.table_name # e.foreign_table_name /\ e.table_name = table_name}

\* RECURSIVE_RELATIONS_QUERY with %(table_name)s bound.
RECURSIVE_RELATIONS_QUERY(table_name) ==
    {e \in ForeignKeys : e.table_name = e.foreign_table_name /\ e.table_name = table_name}

\* The catalog query without the NOT IN clause.
NotInFullTablesOmitted(edges, tables) == edges

\* ' AND ccu.table_name NOT IN %(full_tables)s', appended when full_tables is not empty.
NotInFullTables(edges, tables) ==
    IF tables # <<>> THEN {e \in edges : e.foreign_table_name \notin Range(tables)}
    ELSE edges

\* Dumper.get_related_objects_queries: a dict foreign table -> query. No table of
\* the schema has two constraints to the same other table, so the key determines
\* the item.
get_related_objects_queries(table_name, tables) ==
    LET related_tables_ == NotInFullTables(NON_RECURSIVE_RELATIONS_QUERY(table_name), tables)
    IN [ft \in {e.foreign_table_name : e \in related_tables_} |->
          LET item == CHOOSE e \in related_tables_ : e.foreign_table_name = ft
          IN RELATED_ITEMS_FULL_QUERY(item.foreign_table_name, item.foreign_column_name,
                                      table_name, item.column_name)]

\* --------------------------------------------------------------- archive

\* Dump.write_data's path.
DataPath(table_name) == "dump/data/" \o table_name \o ".csv"

SchemaEntry(output) == [path |-> "dump/schema.sql", rows |-> {}, output |-> output]
SequencesEntry(output) == [path |-> "dump/sequences.sql", rows |-> {}, output |-> output]
\* Dumper.write_csv: the CSV of sql's result under the table's path.
write_csv(table_name, sql) ==
    [path |-> DataPath(table_name), rows |-> export_to_csv(sql), output |-> {}]

\* Dumper.pg_dump: the child's stdout, whatever its exit status; args are the -t
\* options. A child that exits non-zero has written nothing.
pg_dump(args, exit_ok) == IF exit_ok THEN Range(args) ELSE {}

\* ---------------------------------------------------------------- inputs

\* Sequences over S in which no element repeats.
RECURSIVE Orderings(_)
Orderings(S) ==
    IF S = {} THEN {<<>>}
    ELSE UNION {{<<x>> \o rest : rest \in Orderings(S \ {x})} : x \in S}

FullTablesInputs == UNION {Orderings(S) : S \in SUBSET Tables}

\* A mapping table -> root SQL in insertion order: keys are unique.
PartialTablesInputs ==
    UNION {{c \in [1..Len(o) -> UNION {{<<t, q>> : q \in UserSql(t)} : t \in Tables}] :
                \A k \in 1..Len(o) : c[k][1] = o[k]} :
           o \in UNION {Orderings(S) : S \in SUBSET Tables}}

\* The arguments of a dump call: a table is dumped in full or from a root
\* selection, not both, as in every call the tests make.
DumpInputs ==
    {args \in FullTablesInputs \X PartialTablesInputs :
        Range(args[1]) \cap {c[1] : c \in Range(args[2])} = {}}

\* ------------------------------------------------------------------ dump

Running == pc \in {"schema", "sequences", "full", "partial", "close"}

\* Where dump goes after write_sequences and after each loop: an empty loop is no step.
AfterSequences == 
    IF full_tables # <<>> THEN "full" ELSE IF partial_tables # <<>> THEN "partial" ELSE "close"
AfterFullTables == IF partial_tables # <<>> THEN "partial" ELSE "close"

Init ==
    /\ db = FixtureData
    /\ nwrites = 0
    /\ txn = "none"
    /\ snapshot = EmptyData
    /\ pc = "idle"
    /\ full_tables = <<>>
    /\ partial_tables = <<>>
    /\ i = 1
    /\ archive = <<>>
    /\ archive_exists = FALSE
    /\ related = <<>>
    /\ related_tables = {}
    /\ dumps = 0
    /\ concurrent = {}
    /\ between = {}
    /\ pg_dump_failed = FALSE
    /\ error = ""
    /\ password = None
    /\ environ = AmbientEnviron
    /\ child_env = <<>>

\* Another connection commits one write.
ConcurrentWrite(w) ==
    /\ nwrites < MaxWrites
    /\ Applicable(w, db)
    /\ db' = Apply(w, db)
    /\ nwrites' = nwrites + 1
    /\ concurrent' = IF Running /\ txn = "open"
                     THEN concurrent \cup {[write |-> w, position |-> Len(archive)]}
                     ELSE concurrent
    /\ between' = IF pc = "done" /\ ~pg_dump_failed
                  THEN between \cup {[write |-> w, after |-> dumps]}
                  ELSE between
    /\ UNCHANGED <<txn, snapshot, pc, full_tables, partial_tables, i, archive,
                   archive_exists, related, related_tables, dumps, pg_dump_failed, error>>
    /\ UNCHANGED env_vars

\* Dumper.dump up to the with statement: Dump(filename, 'w') creates the file empty.
\* The cached connection and its transaction are what the call before left.
BeginCall(tables, config) ==
    /\ pc \in {"idle", "done", "failed"}
    /\ dumps' = dumps + 1
    /\ full_tables' = tables
    /\ partial_tables' = config
    /\ archive' = <<>>
    /\ archive_exists' = TRUE
    /\ pc' = "schema"
    /\ i' = 1
    /\ related' = <<>>
    /\ related_tables' = {}
    /\ concurrent' = {}
    /\ pg_dump_failed' = FALSE
    /\ error' = ""
    /\ UNCHANGED <<db, nwrites, txn, snapshot, between>>
    /\ UNCHANGED env_vars

\* A call of Dumper.dump with any arguments.
DumpBegin(tables, config) ==
    /\ dumps < MaxDumps
    /\ BeginCall(tables, config)

\* A further call of Dumper.dump on the same Dumper with the arguments of the
\* call before.
DumpAgain ==
    /\ dumps >= 1
    /\ dumps < MaxCalls
    /\ BeginCall(full_tables, partial_tables)

\* A statement of the cached connection has run: the transaction is open.
Executed ==
    /\ CanExecute
    /\ txn' = "open"
    /\ snapshot' = Visible

\* Dumper.write_schema: get_selectable_tables, pg_dump -s -x -t ..., writestr.
write_schema(exit_ok) ==
    /\ pc = "schema"
    /\ Executed
    /\ archive' = Append(archive, SchemaEntry(pg_dump(get_selectable_tables, exit_ok)))
    /\ pg_dump_failed' = (pg_dump_failed \/ ~exit_ok)
    /\ pc' = "sequences"
    /\ UNCHANGED <<db, nwrites, full_tables, partial_tables, i, archive_exists, related,
                   related_tables, dumps, concurrent, between, error>>
    /\ child_env' = pg_dump_environment.env
    /\ environ' = pg_dump_environment.os_environ
    /\ UNCHANGED password

\* Dumper.write_sequences: get_sequences, pg_dump -a -t ..., writestr.
write_sequences(exit_ok) ==
    /\ pc = "sequences"
    /\ Executed
    /\ archive' = Append(archive, SequencesEntry(pg_dump(get_sequences, exit_ok)))
    /\ pg_dump_failed' = (pg_dump_failed \/ ~exit_ok)
    /\ pc' = AfterSequences
    /\ i' = 1
    /\ UNCHANGED <<db, nwrites, full_tables, partial_tables, archive_exists, related,
                   related_tables, dumps, concurrent, between, error>>
    /\ child_env' = pg_dump_environment.env
    /\ environ' = pg_dump_environment.os_environ
    /\ UNCHANGED password

\* One iteration of Dumper.write_full_tables: the relation queries are computed
\* and dropped, the table is written whole.
write_full_tables ==
    /\ pc = "full"
    /\ i <= Len(full_tables)
    /\ Executed
    /\ LET table_name == full_tables[i]
       IN /\ related' = get_related_objects_queries(table_name, full_tables)
          /\ archive' = Append(archive, write_csv(table_name, SelectAll(table_name)))
    /\ IF i < Len(full_tables)
       THEN i' = i + 1 /\ pc' = "full"
       ELSE i' = 1 /\ pc' = AfterFullTables
    /\ UNCHANGED <<db, nwrites, full_tables, partial_tables, archive_exists,
                   related_tables, dumps, concurrent, between, pg_dump_failed, error>>
    /\ UNCHANGED env_vars

\* One iteration of Dumper.write_partial_tables: both relation lookups are
\* computed and dropped (print aside), the root SQL is written as given.
write_partial_tables ==
    /\ pc = "partial"
    /\ i <= Len(partial_tables)
    /\ Executed
    /\ LET table_name == partial_tables[i][1]
           sql == partial_tables[i][2]
       IN /\ related' = get_related_objects_queries(table_name, full_tables)
          /\ related_tables' =
                NotInFullTables(RECURSIVE_RELATIONS_QUERY(table_name), full_tables)
          /\ archive' = Append(archive, write_csv(table_name, sql))
    /\ IF i < Len(partial_tables)
       THEN i' = i + 1 /\ pc' = "partial"
       ELSE i' = 1 /\ pc' = "close"
    /\ UNCHANGED <<db, nwrites, full_tables, partial_tables, archive_exists,
                   dumps, concurrent, between, pg_dump_failed, error>>
    /\ UNCHANGED env_vars

\* The with statement's exit on the normal path: ZipFile.close.
DumpClose ==
    /\ pc = "close"
    /\ pc' = "done"
    /\ UNCHANGED <<db, nwrites, txn, snapshot, full_tables, partial_tables, i, archive,
                   archive_exists, related, related_tables, dumps, concurrent, between,
                   pg_dump_failed, error>>
    /\ UNCHANGED env_vars

\* A statement raises (psycopg2.Error): the transaction is left failed, the
\* exception leaves dump through the with statement, whose exit closes the file.
QueryFails ==
    /\ pc \in {"schema", "sequences", "full", "partial"}
    /\ txn' = "aborted"
    /\ pc' = "failed"
    /\ error' = "psycopg2.Error"
    /\ UNCHANGED <<db, nwrites, snapshot, full_tables, partial_tables, i, archive,
                   archive_exists, related, related_tables, dumps, concurrent, between,
                   pg_dump_failed>>
    /\ UNCHANGED env_vars

\* Popen or writestr raises (OSError) after the step's statement ran (and, in
\* write_schema and write_sequences, after env=self.pg_dump_environment was
\* evaluated): the exception leaves dump through the with statement, whose exit
\* closes the file.
WriteFails ==
    /\ pc \in {"schema", "sequences", "full", "partial"}
    /\ Executed
    /\ pc' = "failed"
    /\ error' = "OSError"
    /\ UNCHANGED <<db, nwrites, full_tables, partial_tables, i, archive,
                   archive_exists, related, related_tables, dumps, concurrent, between,
                   pg_dump_failed>>
    /\ IF pc \in {"schema", "sequences"}
       THEN /\ child_env' = pg_dump_environment.env
            /\ environ' = pg_dump_environment.os_environ
       ELSE UNCHANGED <<child_env, environ>>
    /\ UNCHANGED password

Next ==
    \/ \E w \in Writes : ConcurrentWrite(w)
    \/ /\ pc \in {"idle", "done", "failed"}
       /\ dumps < MaxDumps
       /\ \E args \in DumpInputs : DumpBegin(args[1], args[2])
    \/ \E exit_ok \in BOOLEAN : write_schema(exit_ok)
    \/ \E exit_ok \in BOOLEAN : write_sequences(exit_ok)
    \/ write_full_tables
    \/ write_partial_tables
    \/ DumpClose
    \/ QueryFails
    \/ WriteFails

Spec == Init /\ [][Next]_vars

\* ------------------------------------------- pg_dump_environment on its own

dump_vars == <<db, nwrites, txn, snapshot, pc, full_tables, partial_tables, i, archive,
               archive_exists, related, related_tables, dumps, concurrent, between,
               pg_dump_failed, error>>

\* A Dumper constructed with any password in a process with any environment.
InitEnv ==
    /\ db = FixtureData
    /\ nwrites = 0
    /\ txn = "none"
    /\ snapshot = EmptyData
    /\ pc = "idle"
    /\ full_tables = <<>>
    /\ partial_tables = <<>>
    /\ i = 1
    /\ archive = <<>>
    /\ archive_exists = FALSE
    /\ related = <<>>
    /\ related_tables = {}
    /\ dumps = 0
    /\ concurrent = {}
    /\ between = {}
    /\ pg_dump_failed = FALSE
    /\ error = ""
    /\ password \in Passwords
    /\ environ \in Environs
    /\ child_env = <<>>

\* dumper.password = p, as test_pg_dump_environment assigns it.
SetPassword(p) ==
    /\ password # p
    /\ password' = p
    /\ UNCHANGED <<environ, child_env>>
    /\ UNCHANGED dump_vars

\* A read of the property Dumper.pg_dump_environment.
GetPgDumpEnvironment ==
    /\ child_env' = pg_dump_environment.env
    /\ environ' = pg_dump_environment.os_environ
    /\ UNCHANGED password
    /\ UNCHANGED dump_vars

NextEnv ==
    \/ \E p \in Passwords : SetPassword(p)
    \/ GetPgDumpEnvironment

SpecEnv == InitEnv /\ [][NextEnv]_vars

\* ------------------------------------------------- dump called repeatedly

NextRepeat ==
    \/ Next
    \/ DumpAgain

SpecRepeat == Init /\ [][NextRepeat]_vars

\* ------------------------------------------------------- reading archives

DataEntries == {k \in DOMAIN archive : archive[k].path \notin {"dump/schema.sql", "dump/sequences.sql"}}
EntriesOf(t) == {k \in DOMAIN archive : archive[k].path = DataPath(t)}
HasEntry(t) == EntriesOf(t) # {}
RowsOf(t) == UNION {archive[k].rows : k \in EntriesOf(t)}
Paths == [k \in DOMAIN archive |-> archive[k].path]

PartialRoots == {c[1] : c \in Range(partial_tables)}
FullSet == Range(full_tables)

\* The rows that row r references through foreign keys into tables outside `pruned`.
Referenced(r, data, pruned) ==
    UNION {{s \in data[e.foreign_table_name] : s[e.foreign_column_name] = r[e.column_name]} :
           e \in {e \in ForeignKeys : /\ e.table_name = r.table
                                      /\ e.foreign_table_name \notin pruned
                                      /\ r[e.column_name] # NULL}}

\* The least set of rows that holds R and every row a row of it references.
RECURSIVE RowClosure(_, _, _)
RowClosure(R, data, pruned) ==
    LET more == R \cup UNION {Referenced(r, data, pruned) : r \in R}
    IN IF more = R THEN R ELSE RowClosure(more, data, pruned)

\* The tables reached from the tables T by foreign keys into tables outside `pruned`.
Step(T, pruned) ==
    {e.foreign_table_name : e \in {e \in ForeignKeys : /\ e.table_name \in T
                                                       /\ e.foreign_table_name \notin pruned}}

RECURSIVE TableClosure(_, _)
TableClosure(T, pruned) ==
    LET more == T \cup Step(T, pruned)
    IN IF more = T THEN T ELSE TableClosure(more, pruned)

\* The relation targets of table t: reached by a chain of one or more foreign keys.
Targets(t, pruned) == TableClosure(Step({t}, pruned), pruned)

\* The rows the root selections of partial_tables return at the snapshot.
RootRows == UNION {Eval(c[2], snapshot) : c \in Range(partial_tables)}

\* The dump call has returned and none of its steps failed.
Returned == pc = "done" /\ ~pg_dump_failed

\* ------------------------------------------------------------------ claims

\* The SELECT whose result dump writes under the path of table t.
QueryOf(t) ==
    IF t \in FullSet THEN SelectAll(t)
    ELSE (CHOOSE c \in Range(partial_tables) : c[1] = t)[2]

\* Whether the SELECT returns row r when r is in its table.
Selects(sql, r) == r \in Eval(sql, [EmptyData EXCEPT ![r.table] = {r}])

\* C1: a write another connection commits after the dump's transaction opened and
\* before dump returns leaves no trace in any dump/data/<table>.csv entry, wherever
\* between the dump's steps it commits: a row it inserted is in no entry, a row it
\* deleted is still in the entry of its table when the entry's SELECT selects it;
\* the live database has the write.
C1_SnapshotIsolation ==
    \A c \in concurrent :
        LET w == c.write
        IN /\ \A k \in DataEntries :
                /\ w.op = "insert" => w.row \notin archive[k].rows
                /\ (w.op = "delete" /\ archive[k].path = DataPath(w.row.table)
                        /\ Selects(QueryOf(w.row.table), w.row))
                     => w.row \in archive[k].rows
           /\ w.op = "insert" => w.row \in db[w.row.table]
           /\ w.op = "delete" => w.row \notin db[w.row.table]

\* test_transaction: groups gets a row after employees.csv is written and before
\* groups.csv is; the dump has returned.
C1_Witness ==
    /\ pc = "done"
    /\ full_tables = <<"employees", "groups">>
    /\ [write |-> [op |-> "insert", row |-> Group(3)], position |-> 3] \in concurrent
    /\ HasEntry("groups")
    /\ Group(3) \in db["groups"]

\* C2 (I2): when dump has returned, every non-null foreign-key value of a dumped
\* row has its referenced row in the entry of the referenced table, unless that
\* table has no entry.
C2_ReferentialClosure ==
    Returned =>
        \A k \in DataEntries : \A r \in archive[k].rows :
            \A e \in {e \in ForeignKeys : e.table_name = r.table /\ r[e.column_name] # NULL} :
                \/ ~HasEntry(e.foreign_table_name)
                \/ \E s \in RowsOf(e.foreign_table_name) :
                      s[e.foreign_column_name] = r[e.column_name]

\* The relation targets that get an entry of their own after the partial tables.
TargetOnlyTables ==
    UNION {Targets(t, FullSet) : t \in PartialRoots} \ (PartialRoots \cup FullSet)

\* The entries every dump call writes first, in order.
LeadingPaths ==
    <<"dump/schema.sql", "dump/sequences.sql">>
        \o [k \in DOMAIN full_tables |-> DataPath(full_tables[k])]
        \o [k \in DOMAIN partial_tables |-> DataPath(partial_tables[k][1])]

\* C3: the archive of a dump that has returned holds, in order, schema.sql,
\* sequences.sql, the full tables in input order, the partial tables in insertion
\* order, then one entry per relation target of the partial tables.
C3_EntryOrder ==
    Returned =>
        /\ Len(archive) = Len(LeadingPaths) + Cardinality(TargetOnlyTables)
        /\ SubSeq(Paths, 1, Len(LeadingPaths)) = LeadingPaths
        /\ {Paths[k] : k \in (Len(LeadingPaths) + 1)..Len(archive)}
              = {DataPath(t) : t \in TargetOnlyTables}

\* C4: for a partial root (t, sql) and each foreign key of t to another table that
\* is not a full table, the archive has an entry for that table whose rows are
\* exactly those referenced by a non-null value of the rows sql returns.
C4_RootSelectionHonoured ==
    Returned =>
        \A c \in Range(partial_tables) :
            \A e \in {e \in ForeignKeys : /\ e.table_name = c[1]
                                          /\ e.foreign_table_name # c[1]
                                          /\ e.foreign_table_name \notin FullSet} :
                /\ HasEntry(e.foreign_table_name)
                /\ RowsOf(e.foreign_table_name) =
                      {s \in snapshot[e.foreign_table_name] :
                          \E r \in Eval(c[2], snapshot) :
                              r[e.column_name] # NULL /\ s[e.foreign_column_name] = r[e.column_name]}

\* C5: for a partial root t, every table reachable from t by foreign keys that do
\* not lead into a full table has an entry, which holds the rows referenced along
\* the chain from the root selection.
C5_TransitiveExpansion ==
    Returned =>
        \A c \in Range(partial_tables) :
            \A u \in Targets(c[1], FullSet) :
                /\ HasEntry(u)
                /\ {r \in RowClosure(Eval(c[2], snapshot), snapshot, FullSet) : r.table = u}
                      \subseteq RowsOf(u)

\* C6: for a partial root (t, sql) whose table references itself, the entry of t
\* holds the rows sql returns and every row of t reachable from them through the
\* self-referencing foreign keys; it holds nothing else when t is the only root.
C6_SelfReferencingClosure ==
    Returned =>
        \A c \in Range(partial_tables) :
            RECURSIVE_RELATIONS_QUERY(c[1]) # {} =>
                LET closure == RowClosure(Eval(c[2], snapshot), snapshot, Tables \ {c[1]})
                IN /\ Cardinality(EntriesOf(c[1])) = 1
                   /\ closure \subseteq RowsOf(c[1])
                   /\ Len(partial_tables) = 1 => RowsOf(c[1]) = closure

\* C7: for a full table t and each foreign key of t to a table that is not a full
\* table, the archive has an entry for that table holding every row t references.
C7_RelationsOfFullTables ==
    Returned =>
        \A t \in FullSet :
            \A e \in {e \in ForeignKeys : /\ e.table_name = t
                                          /\ e.foreign_table_name \notin FullSet} :
                /\ HasEntry(e.foreign_table_name)
                /\ {s \in snapshot[e.foreign_table_name] :
                       \E r \in snapshot[t] :
                           r[e.column_name] # NULL /\ s[e.foreign_column_name] = r[e.column_name]}
                      \subseteq RowsOf(e.foreign_table_name)

ContributingRoots(t) ==
    {c \in Range(partial_tables) : t = c[1] \/ t \in Targets(c[1], FullSet)}

\* C9: no path is written twice; each full table and partial root has exactly one
\* entry; a table that several partial roots contribute to has exactly one entry,
\* holding the union of the rows all root selections reach.
C9_OneEntryPerTable ==
    Returned =>
        /\ \A j, k \in DOMAIN archive : archive[j].path = archive[k].path => j = k
        /\ \A t \in FullSet \cup PartialRoots : Cardinality(EntriesOf(t)) = 1
        /\ \A t \in Tables \ FullSet :
              Cardinality(ContributingRoots(t)) >= 2 =>
                  /\ Cardinality(EntriesOf(t)) = 1
                  /\ RowsOf(t) = {r \in RowClosure(RootRows, snapshot, FullSet) : r.table = t}

\* C10: a dump call in which a step failed has ended with an error and left no
\* file at archive_path.
C10_ErrorAtomicity ==
    /\ pc = "failed" => ~archive_exists
    /\ pg_dump_failed => pc # "done"

\* A password is supplied: the Dumper has one and it is not empty (the default,
\* None, is what test_pg_dump_environment_empty_password calls empty).
Supplied(p) == p # None /\ p # ""

\* C11: the mapping pg_dump_environment returns holds PGPASSWORD with the
\* configured password when a password is supplied and is the process environment
\* as it stands otherwise; either way it passes every other variable through and
\* adds none, and os.environ is what it was.
C11_ChildEnvironment ==
    [][GetPgDumpEnvironment =>
          /\ Supplied(password) =>
                /\ "PGPASSWORD" \in DOMAIN child_env'
                /\ child_env'["PGPASSWORD"] = password
          /\ ~Supplied(password) => child_env' = environ
          /\ \A name \in DOMAIN environ \ {"PGPASSWORD"} :
                name \in DOMAIN child_env' /\ child_env'[name] = environ[name]
          /\ DOMAIN child_env' \subseteq DOMAIN environ \cup {"PGPASSWORD"}
          /\ environ' = environ]_vars

\* test_pg_dump_environment: the password set to 'PASSW' in a process whose
\* environment has PATH and no PGPASSWORD, and the property read.
C11_Witness ==
    /\ password = "PASSW"
    /\ DOMAIN environ = {"PATH"}
    /\ DOMAIN child_env = {"PATH", "PGPASSWORD"}
    /\ child_env["PGPASSWORD"] = "PASSW"
    /\ child_env["PATH"] = environ["PATH"]

\* The writes committed after the dump call before this one returned and before
\* this one began.
SincePreviousCall == {b.write : b \in {c \in between : c.after = dumps - 1}}

\* After dump returns the connection has no transaction open.
NoTransactionLeftOpen == pc = "done" => txn # "open"

\* A dump call that returned wrote its entries from a database that has every
\* write committed between the call before and it: a row inserted is in the entry
\* of its table when the entry's SELECT selects it, a row deleted is in no entry.
LaterCallObservesWrites ==
    Returned =>
        \A w \in SincePreviousCall :
            /\ (w.op = "insert" /\ HasEntry(w.row.table)
                    /\ Selects(QueryOf(w.row.table), w.row))
                 => w.row \in RowsOf(w.row.table)
            /\ w.op = "delete" => \A k \in DataEntries : w.row \notin archive[k].rows

\* C12: each dump call opens its transaction when it starts and commits it when
\* it ends: no transaction is open once dump has returned, and a later call on
\* the same Dumper sees every write committed between the two calls.
C12_TransactionPerCall ==
    /\ NoTransactionLeftOpen
    /\ LaterCallObservesWrites

====
